---- MODULE Spec2Model ----
(***************************************************************************)
(* Model of src/src/models/Vacancy.py: the Vacancy value object, its       *)
(* constructor and validation, __str__, to_dict and the five comparison    *)
(* operators.                                                              *)
(*                                                                         *)
(* Python values are records [k, v]: k is the representation               *)
(*   "int"   v = the integer                                               *)
(*   "bool"  v = 0 (False) or 1 (True); bool is a subclass of int          *)
(*   "float" v = the value counted in halves (v = 3 is 1.5)                *)
(*   "nan"   float('nan'),  "inf"  float('inf')   (v = 0, unused)          *)
(*   "str"   v = the text                                                  *)
(*   "none"  None,  "list"  a container   (v = 0, unused)                  *)
(* The Cyrillic string literals of the source are transliterated.          *)
(***************************************************************************)
EXTENDS Integers, Sequences, FiniteSets, TLC

VARIABLES pc, args, self, err, nchecked, obj, orig, d, a, b, res

vars == <<pc, args, self, err, nchecked, obj, orig, d, a, b, res>>
ctorVars == <<pc, args, self, err, nchecked, obj, orig, d>>
opsVars == <<a, b, res>>

\* ------------------------------------------------------------------ bounds
MaxSalary == 1
MaxDeviations == 2
NumReaders == 2

\* ------------------------------------------------------------- Python values
PyInt(n) == [k |-> "int", v |-> n]
PyBool(n) == [k |-> "bool", v |-> n]
PyFloat(h) == [k |-> "float", v |-> h]
PyStr(s) == [k |-> "str", v |-> s]
PyNaN == [k |-> "nan", v |-> 0]
PyInf == [k |-> "inf", v |-> 0]
PyNone == [k |-> "none", v |-> 0]
PyList == [k |-> "list", v |-> 0]

\* isinstance(x, int): True for int and for its subclass bool
IsInstanceInt(x) == x.k \in {"int", "bool"}

\* isinstance(x, str)
IsInstanceStr(x) == x.k = "str"

\* isinstance(x, (int, float)): nan and inf are floats
IsInstanceIntFloat(x) == IsInstanceInt(x) \/ x.k \in {"float", "nan", "inf"}

\* x is None
IsNone(x) == x.k = "none"

\* the numeric value of a finite number, in halves
Halves(x) == IF x.k = "float" THEN x.v ELSE 2 * x.v

IsNumber(x) == x.k \in {"int", "bool", "float", "nan", "inf"}

\* x == y of Python on the values above
PyEq(x, y) ==
    IF IsNumber(x) /\ IsNumber(y)
    THEN IF x.k = "nan" \/ y.k = "nan" THEN FALSE
         ELSE IF x.k = "inf" \/ y.k = "inf" THEN x.k = y.k
         ELSE Halves(x) = Halves(y)
    ELSE IF x.k = "str" /\ y.k = "str" THEN x.v = y.v
    ELSE x.k = y.k /\ x.k \in {"none", "list"}

\* x < y of Python on numbers
PyLt(x, y) ==
    IF x.k = "nan" \/ y.k = "nan" THEN FALSE
    ELSE IF x.k = "inf" THEN FALSE
    ELSE IF y.k = "inf" THEN TRUE
    ELSE Halves(x) < Halves(y)

\* x <= y of Python on numbers
PyLe(x, y) ==
    IF x.k = "nan" \/ y.k = "nan" THEN FALSE
    ELSE IF y.k = "inf" THEN TRUE
    ELSE IF x.k = "inf" THEN FALSE
    ELSE Halves(x) <= Halves(y)

\* int(x): truncation toward zero; raises on nan and inf
PyIntCast(x) ==
    IF x.k = "nan" THEN [ok |-> FALSE, val |-> 0, exc |-> "ValueError"]
    ELSE IF x.k = "inf" THEN [ok |-> FALSE, val |-> 0, exc |-> "OverflowError"]
    ELSE IF x.k = "float"
         THEN [ok |-> TRUE,
               val |-> IF x.v >= 0 THEN x.v \div 2 ELSE -((-x.v) \div 2),
               exc |-> ""]
    ELSE [ok |-> TRUE, val |-> x.v, exc |-> ""]

\* str(x) as an f-string field formats it (int, bool and str only)
PyFormat(x) ==
    IF x.k = "int" THEN ToString(x.v)
    ELSE IF x.k = "bool" THEN (IF x.v = 1 THEN "True" ELSE "False")
    ELSE x.v

\* ------------------------------------------------------------------ Vacancy
FieldNames == <<"id_num", "vacancy_name", "company_name", "description",
                "salary_from", "salary_to", "salary_currency", "area", "url">>

NoData == "Net dannyh"

\* what `raise ValueError(...)` carries, per check
Messages == <<"ID dolzhno byt celym chislom",
              "Nazvanie vakansii dolzhno byt strokoj",
              "Nazvanie kompanii dolzhno byt strokoj",
              "Opisanie vakansii dolzhno byt strokoj",
              "Zarplata 'from' dolzhna byt chislom (celym ili desyatichnym)",
              "Zarplata 'to' dolzhna byt chislom (celym ili desyatichnym) ili None",
              "Valyuta zarplaty dolzhna byt strokoj",
              "Mestopolozhenie dolzhno byt strokoj",
              "URL dolzhen byt strokoj">>

\* "no object": what a caller holds when the constructor raised
NoObj ==
    [id_num |-> PyNone, vacancy_name |-> PyNone, company_name |-> PyNone,
     description |-> PyNone, salary_from |-> PyNone, salary_to |-> PyNone,
     salary_currency |-> PyNone, area |-> PyNone, url |-> PyNone]

\* Assign with the salary_to default tied to salary_from (a copy-paste slip)
Assign_coupled(in) ==
    [id_num |-> in.id_num,
     vacancy_name |-> in.vacancy_name,
     company_name |-> in.company_name,
     description |-> in.description,
     salary_from |-> IF ~IsNone(in.salary_from) THEN in.salary_from ELSE PyInt(0),
     salary_to |-> IF ~IsNone(in.salary_from) THEN in.salary_to ELSE PyInt(0),
     salary_currency |-> IF ~IsNone(in.salary_currency) THEN in.salary_currency
                         ELSE PyStr(NoData),
     area |-> in.area,
     url |-> in.url]

\* the assignments of __init__ (the attribute values before validation)
Assign(in) ==
    [id_num |-> in.id_num,
     vacancy_name |-> in.vacancy_name,
     company_name |-> in.company_name,
     description |-> in.description,
     salary_from |-> IF ~IsNone(in.salary_from) THEN in.salary_from ELSE PyInt(0),
     salary_to |-> IF ~IsNone(in.salary_to) THEN in.salary_to ELSE PyInt(0),
     salary_currency |-> IF ~IsNone(in.salary_currency) THEN in.salary_currency
                         ELSE PyStr(NoData),
     area |-> in.area,
     url |-> in.url]

\* CheckPasses with the currency check moved before the two salary checks
CheckPasses_reordered(i, s) ==
    CASE i = 1 -> IsInstanceInt(s.id_num)
      [] i = 2 -> IsInstanceStr(s.vacancy_name)
      [] i = 3 -> IsInstanceStr(s.company_name)
      [] i = 4 -> IsInstanceStr(s.description)
      [] i = 5 -> IsInstanceStr(s.salary_currency)
      [] i = 6 -> IsInstanceIntFloat(s.salary_from)
      [] i = 7 -> IsInstanceIntFloat(s.salary_to)
      [] i = 8 -> IsInstanceStr(s.area)
      [] i = 9 -> IsInstanceStr(s.url)

\* the i-th `if not isinstance(...)` of _validate_data passes
CheckPasses(i, s) ==
    CASE i = 1 -> IsInstanceInt(s.id_num)
      [] i = 2 -> IsInstanceStr(s.vacancy_name)
      [] i = 3 -> IsInstanceStr(s.company_name)
      [] i = 4 -> IsInstanceStr(s.description)
      [] i = 5 -> IsInstanceIntFloat(s.salary_from)
      [] i = 6 -> IsInstanceIntFloat(s.salary_to)
      [] i = 7 -> IsInstanceStr(s.salary_currency)
      [] i = 8 -> IsInstanceStr(s.area)
      [] i = 9 -> IsInstanceStr(s.url)

NumChecks == 9

\* _validate_data as a whole: 0 when it returns, else the check that raised
FirstFailing(s) ==
    IF \A i \in 1..NumChecks : CheckPasses(i, s) THEN 0
    ELSE CHOOSE i \in 1..NumChecks :
            /\ ~CheckPasses(i, s)
            /\ \A j \in 1..(i - 1) : CheckPasses(j, s)

\* Vacancy(**in) as a whole: the object, or the ValueError
New(in) ==
    LET s == Assign(in)
        f == FirstFailing(s)
    IN IF f = 0 THEN [ok |-> TRUE, val |-> s, msg |-> ""]
       ELSE [ok |-> FALSE, val |-> NoObj, msg |-> Messages[f]]

\* __str__: the text, or the exception int() raises
Str(s) ==
    LET zero == PyInt(0)
        fromInt == PyIntCast(s.salary_from)
        toInt == PyIntCast(s.salary_to)
        needFrom == ~PyEq(s.salary_from, zero)
        needTo == ~PyEq(s.salary_to, zero)
        from_part == IF needFrom THEN "Ot " \o ToString(fromInt.val) \o " " ELSE ""
        to_part == IF needTo THEN "Do " \o ToString(toInt.val) \o " " ELSE ""
        salary_range ==
            IF PyEq(s.salary_from, zero) /\ PyEq(s.salary_to, zero)
            THEN "Informacii net"
            ELSE from_part \o to_part \o PyFormat(s.salary_currency)
    IN IF needFrom /\ ~fromInt.ok THEN [ok |-> FALSE, out |-> "", exc |-> fromInt.exc]
       ELSE IF needTo /\ ~toInt.ok THEN [ok |-> FALSE, out |-> "", exc |-> toInt.exc]
       ELSE [ok |-> TRUE,
             out |-> "ID: " \o PyFormat(s.id_num) \o "\n"
                     \o "Nazvanie vakansii: " \o PyFormat(s.vacancy_name) \o "\n"
                     \o "Nazvanie kompanii: " \o PyFormat(s.company_name) \o "\n"
                     \o "Opisanie: " \o PyFormat(s.description) \o "\n"
                     \o "Zarplata: " \o salary_range \o "\n"
                     \o "Mestopolozhenie: " \o PyFormat(s.area) \o "\n"
                     \o "URL: " \o PyFormat(s.url),
             exc |-> ""]

\* to_dict: a new mapping with the nine literal keys
to_dict(s) ==
    [id_num |-> s.id_num,
     vacancy_name |-> s.vacancy_name,
     company_name |-> s.company_name,
     description |-> s.description,
     salary_from |-> s.salary_from,
     salary_to |-> s.salary_to,
     salary_currency |-> s.salary_currency,
     area |-> s.area,
     url |-> s.url]

\* __eq__
Eq(s, other) ==
    /\ PyEq(s.salary_from, other.salary_from)
    /\ PyEq(s.salary_to, other.salary_to)
    /\ PyEq(s.salary_currency, other.salary_currency)

\* __lt__ reading the field the greater family reads
Lt_salary_to(s, other) == PyLt(s.salary_to, other.salary_to)

\* __lt__
Lt(s, other) == PyLt(s.salary_from, other.salary_from)

\* __le__
Le(s, other) == PyLe(s.salary_from, other.salary_from)

\* __gt__  (x > y is y < x on numbers)
Gt(s, other) == PyLt(other.salary_to, s.salary_to)

\* __ge__  (x >= y is y <= x on numbers)
Ge(s, other) == PyLe(other.salary_to, s.salary_to)

\* ------------------------------------------------------------ input values
\* one value of every runtime kind a caller can pass
Kinds == {PyInt(1), PyFloat(3), PyStr("x"), PyBool(1), PyNone, PyList}

\* numbers that validation accepts for a salary
SalaryVals ==
    {PyInt(n) : n \in 0..MaxSalary}
        \cup {PyFloat(-(2 * MaxSalary + 1)), PyNaN, PyInf}

\* the values a caller may pass for field i
FieldVals(i) ==
    CASE i = 1 -> Kinds \cup {PyInt(2)}
      [] i \in {5, 6} -> Kinds \cup SalaryVals
      [] i = 7 -> Kinds \cup {PyStr("USD")}
      [] OTHER -> Kinds

\* a vacancy with all data, and one whose source gave no salary
BaseFull ==
    <<PyInt(1), PyStr("dev"), PyStr("acme"), PyStr("text"),
      PyInt(1), PyInt(1), PyStr("USD"), PyStr("city"), PyStr("u")>>

BaseNoSalary ==
    <<PyInt(1), PyStr("dev"), PyStr("acme"), PyStr("text"),
      PyNone, PyNone, PyNone, PyStr("city"), PyStr("u")>>

\* a second vacancy that shares no descriptive field with the first
BaseOther ==
    <<PyInt(2), PyStr("qa"), PyStr("globex"), PyStr("other"),
      PyInt(1), PyInt(1), PyStr("USD"), PyStr("town"), PyStr("w")>>

\* positional arguments as the keyword mapping of the call
Call(t) == [id_num |-> t[1], vacancy_name |-> t[2], company_name |-> t[3],
            description |-> t[4], salary_from |-> t[5], salary_to |-> t[6],
            salary_currency |-> t[7], area |-> t[8], url |-> t[9]]

AllVals == UNION {FieldVals(i) : i \in 1..NumChecks}

\* argument lists that differ from a base in the fields of D
Deviating(base, D) ==
    {[i \in 1..NumChecks |-> IF i \in D THEN g[i] ELSE base[i]] :
        g \in {h \in [D -> AllVals] : \A i \in D : h[i] \in FieldVals(i)}}

CtorArgs ==
    UNION {Deviating(base, D) :
             base \in {BaseFull, BaseNoSalary},
             D \in {E \in SUBSET (1..NumChecks) : Cardinality(E) <= MaxDeviations}}

\* the records the comparison operators and __str__ are applied to
OpsArgs(base, currencies) ==
    {[i \in 1..NumChecks |->
         IF i = 5 THEN t[1] ELSE IF i = 6 THEN t[2] ELSE IF i = 7 THEN t[3]
         ELSE base[i]] :
        t \in SalaryVals \X SalaryVals \X currencies}

\* the objects the constructor returns for these arguments
ValidObjs(base, currencies) ==
    {New(Call(t)).val : t \in {u \in OpsArgs(base, currencies) : New(Call(u)).ok}}

Readers == 1..NumReaders

NoRes == [reader |-> 0, op |-> "none", lhs |-> "", rhs |-> "", ok |-> TRUE,
          out |-> "", exc |-> "", dict |-> NoObj]

\* --------------------------------------------------- construction, stepwise
\* lines 75-83: the nine assignments
VacancyInit ==
    /\ pc = "init"
    /\ self' = Assign(args)
    /\ nchecked' = 0
    /\ pc' = "validate"
    /\ UNCHANGED <<args, err, obj, orig, d, a, b, res>>

\* one `if not isinstance(...): raise` of _validate_data; after the ninth
\* check __init__ returns and the caller holds the object
ValidateStep ==
    /\ pc = "validate"
    /\ nchecked' = nchecked + 1
    /\ IF CheckPasses(nchecked + 1, self)
       THEN /\ err' = err
            /\ IF nchecked + 1 = NumChecks
               THEN pc' = "returned" /\ obj' = self
               ELSE pc' = "validate" /\ obj' = obj
       ELSE /\ err' = Messages[nchecked + 1]
            /\ pc' = "raised"
            /\ obj' = obj
    /\ UNCHANGED <<args, self, orig, d, a, b, res>>

\* the caller exports the object it holds
ToDict ==
    /\ pc = "returned"
    /\ d = NoObj
    /\ d' = to_dict(obj)
    /\ UNCHANGED <<pc, args, self, err, nchecked, obj, orig, a, b, res>>

\* the caller calls Vacancy(**d) on the exported mapping
Reconstruct ==
    /\ pc = "returned"
    /\ d # NoObj
    /\ orig = NoObj
    /\ orig' = obj
    /\ args' = d
    /\ obj' = NoObj
    /\ self' = NoObj
    /\ nchecked' = 0
    /\ pc' = "init"
    /\ UNCHANGED <<err, d, a, b, res>>

InitCtor ==
    /\ pc = "init"
    /\ args \in {Call(t) : t \in CtorArgs}
    /\ self = NoObj
    /\ err = ""
    /\ nchecked = 0
    /\ obj = NoObj
    /\ orig = NoObj
    /\ d = NoObj
    /\ a = NoObj
    /\ b = NoObj
    /\ res = NoRes

NextCtor == VacancyInit \/ ValidateStep \/ ToDict \/ Reconstruct

SpecCtor == InitCtor /\ [][NextCtor]_vars

\* ------------------------------------------------ operations on two objects
Operand(n) == IF n = "a" THEN a ELSE b

\* str(x) storing the truncated salary_from back into the object
DoStr_storing(r, x) ==
    LET o == Str(Operand(x))
        c == PyIntCast(Operand(x).salary_from)
        t == [Operand(x) EXCEPT !.salary_from = IF c.ok THEN PyInt(c.val) ELSE @]
    IN /\ res' = [reader |-> r, op |-> "str", lhs |-> x, rhs |-> "",
                  ok |-> o.ok, out |-> o.out, exc |-> o.exc, dict |-> NoObj]
       /\ a' = IF x = "a" THEN t ELSE a
       /\ b' = IF x = "b" THEN t ELSE b

\* str(x) by reader r
DoStr(r, x) ==
    LET o == Str(Operand(x))
    IN /\ res' = [reader |-> r, op |-> "str", lhs |-> x, rhs |-> "",
                  ok |-> o.ok, out |-> o.out, exc |-> o.exc, dict |-> NoObj]
       /\ UNCHANGED <<a, b>>

\* x.to_dict() by reader r
DoToDict(r, x) ==
    /\ res' = [reader |-> r, op |-> "to_dict", lhs |-> x, rhs |-> "",
               ok |-> TRUE, out |-> "", exc |-> "", dict |-> to_dict(Operand(x))]
    /\ UNCHANGED <<a, b>>

BoolOut(v) == IF v THEN "True" ELSE "False"

Compare(r, name, x, y, v) ==
    /\ res' = [reader |-> r, op |-> name, lhs |-> x, rhs |-> y,
               ok |-> TRUE, out |-> BoolOut(v), exc |-> "", dict |-> NoObj]
    /\ UNCHANGED <<a, b>>

DoEq(r, x, y) == Compare(r, "eq", x, y, Eq(Operand(x), Operand(y)))
DoLt(r, x, y) == Compare(r, "lt", x, y, Lt(Operand(x), Operand(y)))
DoLe(r, x, y) == Compare(r, "le", x, y, Le(Operand(x), Operand(y)))
DoGt(r, x, y) == Compare(r, "gt", x, y, Gt(Operand(x), Operand(y)))
DoGe(r, x, y) == Compare(r, "ge", x, y, Ge(Operand(x), Operand(y)))

Orders == {<<"a", "b">>, <<"b", "a">>}

ReadStr == \E r \in Readers, x \in {"a", "b"} : DoStr(r, x) /\ UNCHANGED ctorVars
ReadToDict == \E r \in Readers, x \in {"a", "b"} : DoToDict(r, x) /\ UNCHANGED ctorVars
ReadEq == \E r \in Readers, o \in Orders \cup {<<"a", "a">>} : DoEq(r, o[1], o[2]) /\ UNCHANGED ctorVars
ReadLt == \E r \in Readers, o \in Orders : DoLt(r, o[1], o[2]) /\ UNCHANGED ctorVars
ReadLe == \E r \in Readers, o \in Orders : DoLe(r, o[1], o[2]) /\ UNCHANGED ctorVars
ReadGt == \E r \in Readers, o \in Orders : DoGt(r, o[1], o[2]) /\ UNCHANGED ctorVars
ReadGe == \E r \in Readers, o \in Orders : DoGe(r, o[1], o[2]) /\ UNCHANGED ctorVars

InitOps ==
    /\ pc = "returned"
    /\ args = NoObj
    /\ self = NoObj
    /\ err = ""
    /\ nchecked = NumChecks
    /\ obj = NoObj
    /\ orig = NoObj
    /\ d = NoObj
    /\ a \in ValidObjs(BaseFull, {PyStr("USD"), PyNone})
    /\ b \in ValidObjs(BaseOther, {PyStr("USD")})
    /\ res = NoRes

NextOps == ReadStr \/ ReadToDict \/ ReadEq \/ ReadLt \/ ReadLe \/ ReadGt \/ ReadGe

SpecOps == InitOps /\ [][NextOps]_vars

\* =================================================================== claims
\* the runtime kinds as the specification names them
IsInteger(x) == x.k = "int"
IsText(x) == x.k = "str"
IsFloating(x) == x.k \in {"float", "nan", "inf"}
IsNull(x) == x.k = "none"

TextFields == {"vacancy_name", "company_name", "description", "area", "url"}

\* some field holds a value of the wrong runtime type, as C1 lists them
WrongType(in) ==
    \/ ~IsInteger(in.id_num)
    \/ \E f \in TextFields : ~IsText(in[f])
    \/ ~(IsText(in.salary_currency) \/ IsNull(in.salary_currency))
    \/ \E f \in {"salary_from", "salary_to"} :
          ~(IsInteger(in[f]) \/ IsFloating(in[f]) \/ IsNull(in[f]))

\* C1 as stated: a construction whose arguments hold a value of the wrong
\* runtime type in any one field never returns an object.
C1_AsClaimed == WrongType(args) => (pc # "returned" /\ obj = NoObj)

\* C2: for every valid field set the construction never raises, and the
\* object it returns stores each input value unchanged, except that a null
\* salary_from is stored as 0, a null salary_to as 0 and a null
\* salary_currency as the "no data" sentinel, each independently.
C2_ValidStored ==
    ~WrongType(args) =>
        /\ pc # "raised"
        /\ err = ""
        /\ pc = "returned" =>
             /\ \A f \in TextFields \cup {"id_num"} : obj[f] = args[f]
             /\ obj.salary_from =
                  IF IsNull(args.salary_from) THEN PyInt(0) ELSE args.salary_from
             /\ obj.salary_to =
                  IF IsNull(args.salary_to) THEN PyInt(0) ELSE args.salary_to
             /\ obj.salary_currency =
                  IF IsNull(args.salary_currency) THEN PyStr(NoData)
                  ELSE args.salary_currency

\* a null salary_from was coerced while salary_to and the currency were given
C2_Witness ==
    /\ pc = "returned"
    /\ ~WrongType(args)
    /\ IsNull(args.salary_from) /\ obj.salary_from = PyInt(0)
    /\ IsFloating(args.salary_to) /\ obj.salary_to = args.salary_to
    /\ IsText(args.salary_currency)

\* C6 as stated: the record constructed from the nine pairs of v.to_dict()
\* is constructed without error, is equal to v under ==, and each of its nine
\* fields equals (==) the corresponding field of v.
C6_AsClaimed ==
    orig # NoObj =>
        /\ pc # "raised"
        /\ DOMAIN d = {FieldNames[i] : i \in 1..NumChecks}
        /\ \A f \in DOMAIN d : d[f] = orig[f]
        /\ pc = "returned" =>
             /\ Eq(obj, orig)
             /\ \A i \in 1..NumChecks : PyEq(obj[FieldNames[i]], orig[FieldNames[i]])

\* the runtime's type test of the i-th field in the order C9 gives
TypeTestPasses(i, x) ==
    IF i = 1 THEN x.k \in {"int", "bool"}
    ELSE IF i \in {5, 6} THEN x.k \in {"int", "bool", "float", "nan", "inf"}
    ELSE x.k = "str"

\* the value the i-th check sees: the argument after the null coercions
Coerced(i) ==
    LET x == args[FieldNames[i]]
    IN IF IsNull(x) /\ i \in {5, 6} THEN PyInt(0)
       ELSE IF IsNull(x) /\ i = 7 THEN PyStr(NoData)
       ELSE x

\* C9: the checks run in the order id_num, vacancy_name, company_name,
\* description, salary_from, salary_to, salary_currency, area, url on the
\* coerced values; every check evaluated before the current one passed; a
\* construction that raised stopped at the first failing check, carries that
\* field's message, evaluated no later check, and returned no object.
C9_FirstFailure ==
    /\ pc \in {"validate", "returned"} =>
          \A i \in 1..nchecked : TypeTestPasses(i, Coerced(i))
    /\ pc = "raised" =>
          /\ nchecked \in 1..NumChecks
          /\ ~TypeTestPasses(nchecked, Coerced(nchecked))
          /\ \A i \in 1..(nchecked - 1) : TypeTestPasses(i, Coerced(i))
          /\ err = Messages[nchecked]
          /\ obj = NoObj
    /\ pc # "raised" => err = ""

\* two fields are wrong and the construction stopped at the earlier one
C9_Witness ==
    /\ pc = "raised"
    /\ nchecked = 5
    /\ ~TypeTestPasses(7, Coerced(7))
    /\ err = Messages[5]

\* the operands of the last operation
Left == Operand(res.lhs)
Right == Operand(res.rhs)

SalaryFields == {"salary_from", "salary_to", "salary_currency"}

\* C3 as stated: a == b is true iff the three salary fields compare equal
\* pairwise; records that differ only in id_num, vacancy_name, company_name,
\* description, area or url are equal; records that differ only in
\* salary_currency are unequal.
C3_AsClaimed ==
    res.op = "eq" =>
        /\ (res.out = "True") <=> (\A f \in SalaryFields : PyEq(Left[f], Right[f]))
        /\ (\A f \in SalaryFields : Left[f] = Right[f]) => res.out = "True"
        /\ (/\ Left.salary_from = Right.salary_from
            /\ Left.salary_to = Right.salary_to
            /\ Left.salary_currency # Right.salary_currency) => res.out = "False"

\* C4: each ordering predicate reads exactly one field: a < b is
\* a.salary_from < b.salary_from, a <= b is a.salary_from <= b.salary_from,
\* a > b is a.salary_to > b.salary_to, a >= b is a.salary_to >= b.salary_to.
C4_OneFieldEach ==
    /\ res.op = "lt" =>
          ((res.out = "True") <=> PyLt(Left.salary_from, Right.salary_from))
    /\ res.op = "le" =>
          ((res.out = "True") <=> PyLe(Left.salary_from, Right.salary_from))
    /\ res.op = "gt" =>
          ((res.out = "True") <=> PyLt(Right.salary_to, Left.salary_to))
    /\ res.op = "ge" =>
          ((res.out = "True") <=> PyLe(Right.salary_to, Left.salary_to))
    /\ res.op \in {"lt", "le", "gt", "ge"} => res.out \in {"True", "False"}

\* a < b came out true although b.salary_to > a.salary_to is false: b > a fails
C4_Witness ==
    /\ res.op = "lt"
    /\ res.out = "True"
    /\ ~PyLt(Left.salary_to, Right.salary_to)
    /\ ~Gt(Right, Left)

\* the salary phrase as C5 words it
Truncated(x) ==
    IF x.k = "float" THEN (IF x.v >= 0 THEN x.v \div 2 ELSE -((-x.v) \div 2))
    ELSE x.v

NonZero(x) == x.k \in {"nan", "inf"} \/ Halves(x) # 0

Phrase(s) ==
    IF ~NonZero(s.salary_from) /\ ~NonZero(s.salary_to) THEN "Informacii net"
    ELSE (IF NonZero(s.salary_from)
          THEN "Ot " \o ToString(Truncated(s.salary_from)) \o " " ELSE "")
         \o (IF NonZero(s.salary_to)
             THEN "Do " \o ToString(Truncated(s.salary_to)) \o " " ELSE "")
         \o s.salary_currency.v

\* C5 as stated: rendering a valid record yields the seven lines id, title,
\* employer, description, salary, area, url in that order, the salary line
\* holding the phrase above.
C5_AsClaimed ==
    res.op = "str" =>
        /\ res.ok
        /\ res.out = "ID: " \o ToString(Left.id_num.v)
                     \o "\nNazvanie vakansii: " \o Left.vacancy_name.v
                     \o "\nNazvanie kompanii: " \o Left.company_name.v
                     \o "\nOpisanie: " \o Left.description.v
                     \o "\nZarplata: " \o Phrase(Left)
                     \o "\nMestopolozhenie: " \o Left.area.v
                     \o "\nURL: " \o Left.url.v

\* C7: no step of rendering, to_dict, ==, <, <=, > or >= by any reader
\* changes a field of either record.
C7_FieldsUnchanged == [][a' = a /\ b' = b]_vars

\* a record with a fractional salary_from has been rendered
C7_Witness ==
    /\ res.op = "str"
    /\ res.ok
    /\ Left.salary_from.k = "float"
    /\ Left.salary_from.v % 2 = 1

\* C8 as stated: on validly constructed records rendering and to_dict always
\* return a result and the five comparisons always return a boolean.
C8_AsClaimed ==
    /\ res.ok
    /\ res.exc = ""
    /\ res.op \in {"eq", "lt", "le", "gt", "ge"} => res.out \in {"True", "False"}

\* C10 as stated: a == b implies a <= b, b <= a, a >= b, b >= a and none of
\* a < b, b < a, a > b, b > a; == is reflexive, symmetric and transitive.
C10_AsClaimed ==
    res.op = "eq" =>
        /\ res.out = "True" =>
             /\ Le(Left, Right) /\ Le(Right, Left)
             /\ Ge(Left, Right) /\ Ge(Right, Left)
             /\ ~Lt(Left, Right) /\ ~Lt(Right, Left)
             /\ ~Gt(Left, Right) /\ ~Gt(Right, Left)
        /\ res.lhs = res.rhs => res.out = "True"
        /\ (res.out = "True") <=> Eq(Right, Left)
        /\ \A x, y, z \in {a, b} : Eq(x, y) /\ Eq(y, z) => Eq(x, z)

====
